---- MODULE Spec2Model ----
(***************************************************************************)
(* A model of rela (src/rela/_rela.py, src/rela/_test.py).                 *)
(*                                                                         *)
(* Strings that are file-system paths are modelled by their pathlib parts: *)
(* "/t/pkg/b.py" is <<"/", "t", "pkg", "b.py">>.  Dotted module names are *)
(* modelled by their components: "pkg.sub" is <<"pkg", "sub">>.            *)
(* A Python value that may be None is a sequence of length 0 (None) or 1.  *)
(***************************************************************************)
EXTENDS Integers, Sequences, FiniteSets, TLC

VARIABLES sys_path, sys_meta_path, sys_modules, g, scopes, ret, cls, deco,
          last

vars ==
    <<sys_path, sys_meta_path, sys_modules, g, scopes, ret, cls, deco, last>>

\* ------------------------------------------------------------------ bounds
\* longest sys.path from which user code still adds an entry by hand
MaxPath == 3
\* deepest nesting of `with path(..)` blocks
MaxScopes == 2

\* ------------------------------------------------------- Python primitives
None == <<>>
\* the empty dict
EmptyMods == [n \in {} |-> <<>>]
Some(v) == <<v>>

\* list.count(x)
RECURSIVE Count(_, _)
Count(x, seq) ==
    IF seq = <<>> THEN 0
    ELSE (IF Head(seq) = x THEN 1 ELSE 0) + Count(x, Tail(seq))

\* x in list
In(x, seq) == \E i \in 1..Len(seq) : seq[i] = x

\* list.index(x): position of the first occurrence, 0 when there is none
\* (where Python raises ValueError)
Index(seq, x) ==
    IF In(x, seq) THEN CHOOSE i \in 1..Len(seq) :
                           seq[i] = x /\ \A j \in 1..(i-1) : seq[j] # x
    ELSE 0

\* list.remove(x): drops the first occurrence
Remove(seq, x) ==
    LET i == Index(seq, x)
    IN  IF i = 0 THEN seq
        ELSE SubSeq(seq, 1, i-1) \o SubSeq(seq, i+1, Len(seq))

\* list.insert(0, x) and list.append(x)
Insert0(seq, x) == <<x>> \o seq
AppendTo(seq, x) == seq \o <<x>>

\* while x in seq: seq.remove(x)
RECURSIVE RemoveWhileIn(_, _)
RemoveWhileIn(seq, x) ==
    IF In(x, seq) THEN RemoveWhileIn(Remove(seq, x), x) ELSE seq

\* ------------------------------------------------------------- path algebra
\* os.getcwd()
Cwd == <<"/", "t", "package">>

IsAbs(p) == p # <<>> /\ p[1] \in {"/", "//"}

\* str.startswith('.') of a directory expression: its first component is
\* ".", ".." or a dot-led name
StartsWithDot(p) == p # <<>> /\ p[1] \in {".", "..", ".libs"}

\* os.path.expanduser: a leading "~" component becomes the home directory
expanduser(p) ==
    IF p # <<>> /\ p[1] = "~" THEN <<"/", "home">> \o Tail(p) ELSE p

\* pathlib: a / b; the "." components of b are dropped
PathJoin(a, b) ==
    LET named(c) == c # "."
    IN  IF IsAbs(b) THEN SelectSeq(b, named) ELSE a \o SelectSeq(b, named)

\* pathlib: Path.parent
Parent(p) ==
    IF Len(p) = 0 THEN <<>>
    ELSE IF Len(p) = 1 THEN (IF IsAbs(p) THEN p ELSE <<>>)
    ELSE SubSeq(p, 1, Len(p) - 1)

\* pathlib: Path.absolute()
Absolute(p) == IF IsAbs(p) THEN p ELSE Cwd \o p

\* os.path.abspath of an absolute path: normpath drops "." and resolves ".."
RECURSIVE Normpath(_, _)
Normpath(done, rest) ==
    IF rest = <<>> THEN done
    ELSE LET c == Head(rest)
         IN  IF c = "." THEN Normpath(done, Tail(rest))
             ELSE IF c = ".."
                  THEN Normpath(IF Len(done) > 1 THEN Parent(done) ELSE done,
                                Tail(rest))
             ELSE Normpath(done \o <<c>>, Tail(rest))

abspath(p) == Normpath(<<p[1]>>, Tail(p))

\* -------------------------------------------------------------- rela.path
\* the directory _path computes from the expression p and the caller g
PathTarget(p, gl) ==
    abspath(Absolute(IF gl.file # None
                     THEN PathJoin(Parent(gl.file[1]), expanduser(p))
                     ELSE p))

\* the warnings _path emits
PathWarnings(p, gl) ==
    IF gl.file # None /\ ~ StartsWithDot(p)
    THEN << [kind |-> "AbsolutePathWarning"] >>
    ELSE <<>>

\* a variant that drops only the first old occurrence
PathPlaceOnce(sp, p2, top) ==
    IF top THEN Insert0(Remove(sp, p2), p2) ELSE AppendTo(Remove(sp, p2), p2)

\* the de-duplicating insertion of _path
PathPlace(sp, p2, top) ==
    IF top THEN Insert0(RemoveWhileIn(sp, p2), p2)
    ELSE AppendTo(RemoveWhileIn(sp, p2), p2)

\* _path(p, g, top): the new sys.path, the ContextString returned, the warnings
_path(p, gl, top, sp) ==
    LET p2 == PathTarget(p, gl)
    IN  [sys_path |-> PathPlace(sp, p2, top),
         ret      |-> p2,
         log      |-> PathWarnings(p, gl)]

\* a variant that drops only the first occurrence
ContextExitOnce(s, sp) == Remove(sp, s)

\* a variant that drops the first entry of sys.path
ContextExitPop(s, sp) == IF sp = <<>> THEN sp ELSE Tail(sp)

\* ContextString.__exit__
ContextString__exit__(s, sp) == RemoveWhileIn(sp, s)

\* ------------------------------------------------------------------ inputs
\* caller namespaces: the entry script, the same file imported as a module,
\* and an interactive shell that has no __file__
ScriptFile == <<"/", "t", "package", "aaa.py">>

Caller(name, file, package) ==
    [name |-> name, file |-> file, package |-> package, spec |-> None]

PathCallers ==
    { Caller("__main__", Some(ScriptFile), None),
      Caller("package.aaa", Some(ScriptFile), Some(<<"package">>)),
      Caller("__main__", None, None) }

\* directory expressions given to path()
PathExprs ==
    { <<"..">>, <<".">>, <<"..", "package">>, <<"/", "t">>, <<"~">>, <<>> }

\* what user code puts on sys.path by hand
HandDirs == { <<"/", "t">>, <<"/", "t", "package">> }

SitePath == << <<"/", "site">> >>

\* ----------------------------------------------------------------- actions
Frame == UNCHANGED <<sys_meta_path, sys_modules, cls, deco>>

\* rela.path(p, top) called from the namespace g
PathCall(p, top) ==
    /\ Len(sys_path) <= MaxPath
    /\ LET r == _path(p, g, top, sys_path)
       IN  /\ sys_path' = r.sys_path
           /\ ret' = Some(r.ret)
           /\ last' = [op |-> "path", g |-> g, top |-> top, p2 |-> r.ret,
                       pre_path |-> sys_path, log |-> r.log]
    /\ UNCHANGED <<g, scopes>>
    /\ Frame

\* `with <the value path() returned>:` -- ContextString.__enter__
EnterScope ==
    /\ ret # None
    /\ Len(scopes) < MaxScopes
    /\ scopes' = <<ret[1]>> \o scopes
    /\ last' = [op |-> "enter", s |-> ret[1], pre_path |-> sys_path]
    /\ ret' = None
    /\ UNCHANGED <<sys_path, g>>
    /\ Frame

\* the innermost with-block ends, normally or by an exception of its body
ExitScope(exc) ==
    /\ scopes # <<>>
    /\ sys_path' = ContextString__exit__(Head(scopes), sys_path)
    /\ scopes' = Tail(scopes)
    /\ last' = [op |-> "exit", s |-> Head(scopes), pre_path |-> sys_path,
                exc |-> exc]
    /\ ret' = None
    /\ UNCHANGED g
    /\ Frame

\* user code: sys.path.append(d)
UserAppend(d) ==
    /\ Len(sys_path) < MaxPath
    /\ sys_path' = AppendTo(sys_path, d)
    /\ last' = [op |-> "append", d |-> d]
    /\ ret' = None
    /\ UNCHANGED <<g, scopes>>
    /\ Frame

InitPath ==
    /\ sys_path = SitePath
    /\ sys_meta_path = <<>>
    /\ sys_modules = EmptyMods
    /\ g \in PathCallers
    /\ scopes = <<>>
    /\ ret = None
    /\ cls = [id |-> "none"]
    /\ deco = None
    /\ last = [op |-> "init"]

NextPath ==
    \/ \E p \in PathExprs, top \in BOOLEAN : PathCall(p, top)
    \/ EnterScope
    \/ \E exc \in {"none", "Exception"} : ExitScope(exc)
    \/ \E d \in HandDirs : UserAppend(d)

SpecPath == InitPath /\ [][NextPath]_vars

\* ---------------------------------------------------------- the file system
\* the directories that exist, and those of them that hold an __init__.py
Dirs ==
    { <<"/">>, <<"/", "t">>, <<"/", "t", "package">>,
      <<"/", "t", "package", "thing">>, <<"/", "t", "package", "package">>,
      <<"/", "t", "ns">>, <<"/", "t", "ns", "a">>,
      <<"/", "t", "imported">>, <<"/", "t", "bad">>,
      <<"/", "site">>, <<"/", "site", "package">> }

Inits ==
    { <<"/", "t", "package">>, <<"/", "site", "package">>,
      <<"/", "t", "imported">>, <<"/", "t", "bad">> }

\* the module files that exist, and those of them whose code raises
Files ==
    { <<"/", "t", "package", "aaa.py">>, <<"/", "t", "package", "xyz.py">>,
      <<"/", "t", "package", "boom.py">>,
      <<"/", "t", "package", "thing", "aaa.py">>,
      <<"/", "t", "package", "thing", "xyz.py">>,
      <<"/", "t", "ns", "a", "test.py">>,
      <<"/", "t", "imported", "b.py">> }

Boom ==
    { <<"/", "t", "package", "boom.py">>, <<"/", "t", "bad", "__init__.py">> }

\* the names a file's code imports with 'from . import name': the
\* __init__.py of the package imported imports its module b; the other
\* files import nothing
FromImports(file) ==
    IF file = <<"/", "t", "imported", "__init__.py">> THEN << "b" >>
    ELSE <<>>

\* the directory a path string denotes: "//t" is "/t", a relative path is
\* taken from the working directory
Canon(p) ==
    IF p # <<>> /\ p[1] = "//" THEN <<"/">> \o Tail(p)
    ELSE IF IsAbs(p) THEN p
    ELSE Cwd \o p

\* pathlib: Path.is_dir() and (Path / '__init__.py').is_file()
is_dir(p) == Canon(p) \in Dirs
init_py_is_file(p) == Canon(p) \in Inits

\* the source file of the module whose FileFinder base path is p
PyPath(p) == SubSeq(p, 1, Len(p) - 1) \o << p[Len(p)] \o ".py" >>
py_is_file(p) ==
    /\ p # <<>>
    /\ Canon(PyPath(p)) \in Files \cup { d \o << "__init__.py" >> : d \in Inits }

\* pathlib: Path.stem of a path segment
Stem(seg) ==
    CASE seg = "aaa.py" -> "aaa"
      [] seg = "xyz.py" -> "xyz"
      [] seg = "boom.py" -> "boom"
      [] seg = "a.py" -> "a"
      [] seg = "test.py" -> "test"
      [] seg = "s.py" -> "s"
      [] seg = "b.py" -> "b"
      [] seg = "__init__.py" -> "__init__"
      [] OTHER -> seg

\* Python slicing seq[a:b] with 0-based, possibly negative, bounds
PyBound(n, a) == IF a < 0 THEN (IF n + a < 0 THEN 0 ELSE n + a)
                 ELSE (IF a > n THEN n ELSE a)
PySlice(seq, a, b) ==
    SubSeq(seq, PyBound(Len(seq), a) + 1, PyBound(Len(seq), b))

\* pathlib.Path(os.path.sep.join(parts)).parts: joining the root "/" with a
\* separator gives a path that starts with "//"
SepJoin(parts) ==
    IF Len(parts) >= 2 /\ parts[1] = "/" THEN <<"//">> \o Tail(parts)
    ELSE parts

\* ------------------------------------------------------- the import system
\* a module (and its spec): its dotted name, its __path__, which is empty
\* for a module that is no package, and the source file of such a module
Module(name, path, kind) ==
    [name |-> name, path |-> path, kind |-> kind, origin |-> None]

FileModule(name, file) ==
    [name |-> name, path |-> <<>>, kind |-> "module", origin |-> Some(file)]

\* importlib FileFinder: the directory of a path entry ('' and '.' are the
\* working directory, a relative entry is taken from it) joined with the
\* last component of the module name; a bare root loses its separators
BasePath(entry, tail) ==
    IF Absolute(entry) \in { <<"/">>, <<"//">> } THEN <<"/", tail>>
    ELSE Absolute(entry) \o <<tail>>

\* the directories of the entries that hold a directory named tail
RECURSIVE Portions(_, _)
Portions(entries, tail) ==
    IF entries = <<>> THEN <<>>
    ELSE (IF is_dir(BasePath(Head(entries), tail))
          THEN << BasePath(Head(entries), tail) >> ELSE <<>>)
         \o Portions(Tail(entries), tail)

\* the first entry that holds a regular package or a module file named
\* tail, 0 if none does
RECURSIVE FirstLoader(_, _, _)
FirstLoader(entries, tail, i) ==
    IF i > Len(entries) THEN 0
    ELSE IF \/ init_py_is_file(BasePath(entries[i], tail))
            \/ py_is_file(BasePath(entries[i], tail)) THEN i
    ELSE FirstLoader(entries, tail, i + 1)

\* importlib FileFinder.find_spec: in one entry a regular package comes
\* before a module file
FileFinderSpec(fullname, base) ==
    IF init_py_is_file(base) THEN Module(fullname, << base >>, "regular")
    ELSE FileModule(fullname, PyPath(base))

\* importlib.machinery.PathFinder: the first entry that holds a regular
\* package or a module file wins; otherwise the directories found make a
\* namespace package
PathFinderPick(fullname, entries, tail, first, found) ==
    IF first # 0
    THEN Some(FileFinderSpec(fullname, BasePath(entries[first], tail)))
    ELSE IF found # <<>> THEN Some(Module(fullname, found, "namespace"))
    ELSE None

PathFinderIn(fullname, entries, tail) ==
    PathFinderPick(fullname, entries, tail, FirstLoader(entries, tail, 1),
                   Portions(entries, tail))

PathFinder(fullname, path, sp) ==
    PathFinderIn(fullname, IF path = None THEN sp ELSE path[1],
                 fullname[Len(fullname)])

\* importlib.util.spec_from_file_location(mod_name, str(init_py)): the
\* location is made absolute
spec_from_file_location(fullname, mod_path) ==
    Module(fullname, << Absolute(mod_path) >>, "regular")

\* RelaModuleFinder.__init__
RelaModuleFinder(mod_name, mod_path) ==
    [mod_name |-> mod_name, mod_path |-> mod_path,
     skip |-> FALSE, found |-> FALSE]

\* importlib._bootstrap._find_spec: the finders of sys.meta_path from the
\* i-th on, then the standard path finder.  st holds sys.meta_path (finders),
\* sys.path, sys.modules (mods) and the pending exception (exc).
RECURSIVE MetaFind(_, _, _, _)

\* if spec: self.found = True; return spec -- else return None
FinderAnswer(i, spec, st) ==
    [spec |-> spec,
     st |-> IF spec # None THEN [st EXCEPT !.finders[i].found = TRUE] ELSE st]

\* a variant that leaves the parent directory on sys.path
NamespaceDoneKeep(i, p, r) == FinderAnswer(i, r.spec, r.st)

\* sys.path.remove(p) after the delegated lookup
NamespaceDone(i, p, r) ==
    FinderAnswer(i, r.spec, [r.st EXCEPT !.sys_path = Remove(@, p)])

\* importlib.util.find_spec(self.mod_name)
util_find_spec(fullname, st) ==
    IF fullname \in DOMAIN st.mods
    THEN [spec |-> Some(st.mods[fullname]), st |-> st]
    ELSE MetaFind(1, fullname, None, st)

\* the namespace mode: sys.path.insert(0, p); self.skip = True; look up
NamespaceMode(i, fullname, p, st) ==
    NamespaceDone(i, p,
        util_find_spec(fullname, [st EXCEPT !.sys_path = Insert0(@, p),
                                            !.finders[i].skip = TRUE]))

\* RelaModuleFinder.find_spec of the i-th finder of sys.meta_path
find_spec(i, fullname, st) ==
    IF st.finders[i].skip \/ fullname # <<st.finders[i].mod_name>>
    THEN [spec |-> None, st |-> st]
    ELSE IF init_py_is_file(st.finders[i].mod_path)
    THEN FinderAnswer(i, Some(spec_from_file_location(
                                  fullname, st.finders[i].mod_path)), st)
    ELSE IF is_dir(st.finders[i].mod_path)
    THEN NamespaceMode(i, fullname, Parent(st.finders[i].mod_path), st)
    ELSE [spec |-> None, st |-> st]

MetaFindNext(i, fullname, path, r) ==
    IF r.spec # None THEN r ELSE MetaFind(i + 1, fullname, path, r.st)

MetaFind(i, fullname, path, st) ==
    IF i > Len(st.finders)
    THEN [spec |-> PathFinder(fullname, path, st.sys_path), st |-> st]
    ELSE MetaFindNext(i, fullname, path, find_spec(i, fullname, st))

\* the dotted name of the parent package, <<>> for a top-level name
ParentName(name) == SubSeq(name, 1, Len(name) - 1)

\* importlib _NamespacePath._recalculate: the __path__ of a namespace package
\* is looked up again on its parent path (sys.path for a top-level package)
\* whenever it is read, and kept when that lookup finds no namespace package
RECURSIVE Recalculate(_, _, _)

RecalculateSet(name, mods, spec) ==
    IF spec # None /\ spec[1].kind = "namespace"
    THEN [mods EXCEPT ![name].path = spec[1].path]
    ELSE mods

RecalculateIn(name, mods, sp) ==
    RecalculateSet(name, mods,
        PathFinder(name,
                   Some(IF ParentName(name) \in DOMAIN mods
                        THEN mods[ParentName(name)].path ELSE sp),
                   sp))

Recalculate(name, mods, sp) ==
    IF mods[name].kind # "namespace" THEN mods
    ELSE RecalculateIn(name,
                       IF ParentName(name) \in DOMAIN mods
                       THEN Recalculate(ParentName(name), mods, sp) ELSE mods,
                       sp)

\* importlib._bootstrap._find_and_load: import the parent first, then find the
\* module on the parent's __path__, register it in sys.modules and run its
\* code
RECURSIVE FindAndLoad(_, _)

\* the file whose code is the module's: the __init__.py of a regular
\* package, the source file of a module
CodeFile(m) ==
    IF m.kind = "regular" THEN Canon(m.path[1]) \o << "__init__.py" >>
    ELSE Canon(m.origin[1])

\* 'from . import x' for each x of xs, in the package pkg, up to the first
\* that fails; _handle_fromlist: a name that is neither an attribute nor a
\* module to be found makes the statement an ImportError
RECURSIVE ExecImports(_, _, _)
ExecImports(pkg, xs, st) ==
    IF st.exc = "ModuleNotFoundError" THEN [st EXCEPT !.exc = "ImportError"]
    ELSE IF xs = <<>> \/ st.exc # "none" THEN st
    ELSE ExecImports(pkg, Tail(xs), FindAndLoad(pkg \o << Head(xs) >>, st))

\* the rest of the file's code, that of a file of Boom raises, and the end
\* of _load_unlocked: except: del sys.modules[spec.name]; raise
ExecDone(name, file, st) ==
    IF st.exc = "none" /\ file \notin Boom THEN st
    ELSE [st EXCEPT
            !.exc = IF @ = "none" THEN "RuntimeError" ELSE @,
            !.mods = [n \in DOMAIN st.mods \ {name} |-> st.mods[n]]]

\* _load_unlocked once sys.modules[spec.name] = module is done: the code of
\* the module m runs, its relative imports starting from its package; a
\* namespace package has no code
LoadUnlocked(name, m, st) ==
    IF m.kind = "namespace" THEN st
    ELSE ExecDone(name, CodeFile(m),
                  ExecImports(IF m.kind = "module" THEN ParentName(name)
                              ELSE name,
                              FromImports(CodeFile(m)), st))

LoadFound(name, r) ==
    IF r.spec = None THEN [r.st EXCEPT !.exc = "ModuleNotFoundError"]
    ELSE LoadUnlocked(name, r.spec[1],
                      [r.st EXCEPT !.mods = (name :> r.spec[1]) @@ @])

LoadFind(name, st) ==
    LoadFound(name,
        MetaFind(1, name,
                 IF ParentName(name) = <<>> THEN None
                 ELSE Some(st.mods[ParentName(name)].path),
                 st))

LoadChild(name, st) ==
    IF st.exc # "none" \/ name \in DOMAIN st.mods THEN st
    ELSE LoadFind(name,
                  IF ParentName(name) = <<>> THEN st
                  ELSE [st EXCEPT !.mods =
                           Recalculate(ParentName(name), @, st.sys_path)])

FindAndLoad(name, st) ==
    IF name \in DOMAIN st.mods THEN st
    ELSE LoadChild(name,
                   IF ParentName(name) # <<>>
                   THEN FindAndLoad(ParentName(name), st) ELSE st)

\* importlib.import_module(name)
import_module(name, finders, sp, mods) ==
    FindAndLoad(name, [finders |-> finders, sys_path |-> sp, mods |-> mods,
                       exc |-> "none"])

\* --------------------------------------------------------------- rela.tive
\* s.count('.') of a specifier: a specifier is a sequence of tokens, "." for
\* a period and a period-free name otherwise ("..": <<".", ".">>,
\* "package": <<"package">>, "": <<>>)
Periods(s) == Count(".", s)

\* the specifier is a non-empty bare name
ByName(s) == Periods(s) = 0 /\ s # <<>>

\* a variant that takes the last matching segment
NameIndexLast(parts, s) ==
    IF In(s[1], parts)
    THEN CHOOSE i \in 1..Len(parts) :
             parts[i] = s[1] /\ \A j \in (i+1)..Len(parts) : parts[j] # s[1]
    ELSE 0

\* path.parts.index(s), 1-based, 0 when s is no segment
NameIndex(parts, s) == Index(parts, s[1])

\* the effective number of periods of a specifier
EffectivePeriods(parts, s) ==
    IF ByName(s)
    THEN Len(SubSeq(parts, NameIndex(parts, s), Len(parts))) - 1
    ELSE Periods(s)

\* the dotted name the script would have as a module, with ".__init__"
\* dropped when it ends in it
DropInit(me) ==
    LET no_init(c) == c # "__init__"
    IN  IF Len(me) >= 2 /\ me[Len(me)] = "__init__"
        THEN <<me[1]>> \o SelectSeq(Tail(me), no_init)
        ELSE me

Me(names, stem) == DropInit(names \o <<stem>>)

\* the path the caller's file is taken to have
CallerFile(gl) == IF gl.file # None THEN gl.file[1] ELSE Cwd \o <<"__rela__">>

\* a variant that slices one segment too few
TiveNamesShort(parts, periods) == PySlice(parts, -periods, -1)

\* the segments that make the dotted package name
TiveNames(parts, periods) == PySlice(parts, -(1 + periods), -1)

\* the directory given to the finder
TiveTarget(parts, periods) == SepJoin(PySlice(parts, 0, -periods))

\* what a call leaves behind: the outcome and the global state after it
TiveResult(exc, r, gl, sp, mp, mods, log, finder, name) ==
    [exc |-> exc, ret |-> r, g |-> gl, sys_path |-> sp, sys_meta_path |-> mp,
     sys_modules |-> mods, log |-> log, finder |-> finder, name |-> name]

\* a variant that raises only after it installed the finder
TiveNotFoundLate(s, gl, sp, mp, mods) ==
    TiveResult("FileNotFoundError", None, gl, sp,
               Insert0(mp, RelaModuleFinder(s[1], <<>>)), mods, <<>>,
               None, None)

\* the not-found failure of a bare name
TiveNotFound(s, gl, sp, mp, mods) ==
    TiveResult("FileNotFoundError", None, gl, sp, mp, mods, <<>>, None, None)

\* a variant that runs for every caller
TiveGuardOff(gl) == FALSE

\* the caller is not the entry context
TiveSkips(gl) == gl.name # "__main__"

\* a variant that warns whenever the finder found nothing
FinderExitLogNotFound(self, mods) ==
    IF ~ self.found THEN << [kind |-> "RelaModuleNotFound"] >> ELSE <<>>

\* RelaModuleFinder.__exit__: the warning when the finder found nothing and
\* its module is not in sys.modules
FinderExitLog(self, mods) ==
    IF ~ self.found /\ <<self.mod_name>> \notin DOMAIN mods
    THEN << [kind |-> "RelaModuleNotFound"] >> ELSE <<>>

\* the warning when the script is already in sys.modules under its own name
AlreadyImportedLog(me, mods) ==
    IF me \in DOMAIN mods THEN << [kind |-> "RuntimeWarning"] >> ELSE <<>>

\* g['__package__'] and g['__spec__'] are set when they are None
TiveBind(gl, mod_name, my_name) ==
    [gl EXCEPT !.package = IF @ = None THEN Some(mod_name) ELSE @,
               !.spec = IF @ = None THEN Some(my_name) ELSE @]

\* the rest of _tive once the with-block has ended: r is the state the import
\* left, with the finder still first in sys.meta_path
TiveAfterImport(names, stem, gl, mf, r) ==
    IF r.exc # "none"
    THEN TiveResult(r.exc, None, gl, r.sys_path, Tail(r.finders), r.mods,
                    FinderExitLog(r.finders[1], r.mods), Some(mf), Some(names))
    ELSE TiveResult("none", Some(r.mods[names]),
                    TiveBind(gl, r.mods[names].name, names \o <<stem>>),
                    r.sys_path, Tail(r.finders), r.mods,
                    FinderExitLog(r.finders[1], r.mods)
                        \o AlreadyImportedLog(Me(names, stem), r.mods),
                    Some(mf), Some(names))

\* with RelaModuleFinder(names[0], target): mod = import_module(name)
TiveWithFinder(names, stem, gl, sp, mp, mods, mf) ==
    TiveAfterImport(names, stem, gl, mf,
                    import_module(names, Insert0(mp, mf), sp, mods))

TiveImport(names, target, stem, gl, sp, mp, mods) ==
    IF names = <<>>
    THEN TiveResult("IndexError", None, gl, sp, mp, mods, <<>>, None, None)
    ELSE TiveWithFinder(names, stem, gl, sp, mp, mods,
                        RelaModuleFinder(names[1], target))

TiveSlices(parts, periods, gl, sp, mp, mods) ==
    TiveImport(TiveNames(parts, periods), TiveTarget(parts, periods),
               Stem(parts[Len(parts)]), gl, sp, mp, mods)

\* _tive(s, g) in the global state sys.path, sys.meta_path, sys.modules
_tive(s, gl, sp, mp, mods) ==
    IF TiveSkips(gl)
    THEN TiveResult("none", None, gl, sp, mp, mods, <<>>, None, None)
    ELSE IF ByName(s) /\ NameIndex(CallerFile(gl), s) = 0
    THEN TiveNotFound(s, gl, sp, mp, mods)
    ELSE TiveSlices(CallerFile(gl), EffectivePeriods(CallerFile(gl), s),
                    gl, sp, mp, mods)

\* ------------------------------------------------------------- tive inputs
Main(file) == Caller("__main__", Some(file), None)

TiveFiles ==
    { <<"/", "t", "package", "aaa.py">>,
      <<"/", "t", "package", "thing", "aaa.py">>,
      <<"/", "t", "package", "package", "aaa.py">>,
      <<"/", "t", "package", "__init__.py">>,
      <<"/", "t", "ns", "a", "test.py">>,
      <<"/", "t", "imported", "b.py">>,
      <<"/", "t", "bad", "s.py">>,
      <<"/", "gone", "package", "s.py">>,
      <<"thing", "aaa.py">>,
      <<"aaa.py">> }

TiveCallers ==
    { Main(f) : f \in TiveFiles }
    \cup { Caller("__main__", None, None),
           Caller("__main__", Some(<<"/", "t", "package", "aaa.py">>),
                  Some(<<"package">>)),
           Caller("package.aaa", Some(<<"/", "t", "package", "aaa.py">>),
                  Some(<<"package">>)),
           Caller("ns.a.test", Some(<<"/", "t", "ns", "a", "test.py">>), None),
           Caller("aaa", Some(<<"/", "t", "aaa.py">>), None) }

Specifiers ==
    { <<".">>, <<".", ".">>, <<".", ".", ".">>, <<".", ".", ".", ".">>,
      <<"package">>, <<"ns">>, <<"thing">>, <<"t">>, <<"__rela__">>,
      <<"nope">>, <<>> }

\* sys.modules when the script was already imported under its package name
PreMods ==
    (<<"package">> :>
        Module(<<"package">>, << <<"/", "t", "package">> >>, "regular"))
    @@ (<<"package", "aaa">> :>
           FileModule(<<"package", "aaa">>, <<"/", "t", "package", "aaa.py">>))

\* ------------------------------------------------------------ tive actions
\* the effect of a tive call with result r
TiveApply(s, r) ==
    /\ sys_path' = r.sys_path
    /\ sys_meta_path' = r.sys_meta_path
    /\ sys_modules' = r.sys_modules
    /\ g' = r.g
    /\ last' = [op |-> "tive", s |-> s,
                pre |-> [g |-> g, sys_path |-> sys_path,
                         sys_meta_path |-> sys_meta_path,
                         sys_modules |-> sys_modules],
                exc |-> r.exc, ret |-> r.ret, log |-> r.log,
                finder |-> r.finder, name |-> r.name]
    /\ ret' = None
    /\ UNCHANGED <<scopes, cls, deco>>

\* rela.tive(s) called from the namespace g
Tive(s) == TiveApply(s, _tive(s, g, sys_path, sys_meta_path, sys_modules))

InitTive ==
    /\ sys_path \in { SitePath, << <<"/", "t">> >> \o SitePath }
    /\ sys_meta_path = <<>>
    /\ sys_modules \in { EmptyMods, PreMods }
    /\ g \in TiveCallers
    /\ scopes = <<>>
    /\ ret = None
    /\ cls = [id |-> "none"]
    /\ deco = None
    /\ last = [op |-> "init"]

NextTive ==
    \E s \in Specifiers : Tive(s)

SpecTive == InitTive /\ [][NextTive]_vars

\* ------------------------------------------------------- rela.if_main_run
\* str.strip(): the whitespace tokens " " at both ends are dropped
RECURSIVE LStrip(_)
LStrip(s) == IF s # <<>> /\ s[1] = " " THEN LStrip(Tail(s)) ELSE s

RECURSIVE RStrip(_)
RStrip(s) ==
    IF s # <<>> /\ s[Len(s)] = " " THEN RStrip(SubSeq(s, 1, Len(s) - 1))
    ELSE s

Strip(s) == RStrip(LStrip(s))

\* '.'.join(parts): the tokens of the joined string; an empty string
\* contributes no token
RECURSIVE DotJoin(_)
DotJoin(parts) ==
    IF parts = <<>> THEN <<>>
    ELSE (IF parts[1] = "" THEN <<>> ELSE << parts[1] >>)
         \o (IF Len(parts) > 1 THEN <<".">> \o DotJoin(Tail(parts)) ELSE <<>>)

\* str.split('.'): the strings between the periods, empty ones included
RECURSIVE DotSplit(_)
DotSplit(s) ==
    IF s = <<>> THEN << "" >>
    ELSE IF s[1] = "." THEN << "" >> \o DotSplit(Tail(s))
    ELSE IF Len(s) = 1 THEN << s[1] >>
    ELSE << s[1] >> \o DotSplit(Tail(Tail(s)))

\* mod_name = package + '.' + file.stem
MainModName(gl) ==
    DotJoin(gl.package[1]) \o <<".">> \o << Stem(gl.file[1][Len(gl.file[1])]) >>

\* while mod.startswith('.'): parts = parts[:-1]; mod = mod[1:]
RECURSIVE StripLevels(_, _)
StripLevels(parts, mod) ==
    IF mod # <<>> /\ mod[1] = "."
    THEN StripLevels(PySlice(parts, 0, -1), Tail(mod))
    ELSE [parts |-> parts, mod |-> mod]

\* new_mod = '.'.join(parts) + '.' + mod
NewMod(lv) == DotJoin(lv.parts) \o <<".">> \o lv.mod

\* importlib.util.find_spec(name) of a dotted name: the spec of a module in
\* sys.modules, else the parent is imported and the name looked up on its
\* __path__; a parent that is no package has none
FindSpecOnParent(name, st) ==
    MetaFind(1, name, Some(st.mods[ParentName(name)].path), st)

FindSpecIn(name, st) ==
    IF st.exc # "none" THEN [spec |-> None, st |-> st]
    ELSE IF st.mods[ParentName(name)].kind = "module"
    THEN [spec |-> None, st |-> [st EXCEPT !.exc = "ModuleNotFoundError"]]
    ELSE FindSpecOnParent(name,
             [st EXCEPT !.mods = Recalculate(ParentName(name), @, st.sys_path)])

importlib_util_find_spec(name, st) ==
    IF name \in DOMAIN st.mods
    THEN [spec |-> Some(st.mods[name]), st |-> st]
    ELSE IF ParentName(name) = <<>> THEN MetaFind(1, name, None, st)
    ELSE FindSpecIn(name, FindAndLoad(ParentName(name), st))

\* runpy._get_module_details: __import__(pkg_name), whose ImportError for
\* the package or an ancestor of it is ignored; what the package's code
\* raises otherwise propagates
RunImportPackage(name, st) ==
    IF ParentName(name) = <<>> THEN st
    ELSE [FindAndLoad(ParentName(name), st) EXCEPT
            !.exc = IF @ \in {"ModuleNotFoundError", "ImportError"}
                    THEN "none" ELSE @]

\* runpy._get_module_details: the warning when the module is in sys.modules
\* under its own name and is no package
RunWarnExisting(name, st) ==
    IF /\ ParentName(name) # <<>>
       /\ name \in DOMAIN st.mods
       /\ st.mods[name].kind = "module"
    THEN [st EXCEPT !.log = Append(@, [kind |-> "RuntimeWarning"])]
    ELSE st

\* runpy._get_module_details(mod_name): the file whose code is to run; for a
\* package it is that of the package's __main__ module
RECURSIVE _get_module_details(_, _)

\* except (ImportError, AttributeError, TypeError, ValueError): raise
\* error(...); if spec is None: raise error(...); another exception of
\* find_spec propagates
RunDetailsFound(name, r) ==
    IF r.st.exc \notin {"none", "ImportError", "ModuleNotFoundError",
                        "AttributeError", "TypeError", "ValueError"}
    THEN [code |-> None, st |-> r.st]
    ELSE IF r.st.exc # "none" \/ r.spec = None
    THEN [code |-> None, st |-> [r.st EXCEPT !.exc = "ImportError"]]
    ELSE IF r.spec[1].kind = "module"
    THEN [code |-> r.spec[1].origin, st |-> r.st]
    ELSE IF name[Len(name)] = "__main__"
    THEN [code |-> None, st |-> [r.st EXCEPT !.exc = "ImportError"]]
    ELSE _get_module_details(name \o << "__main__" >>, r.st)

\* what follows __import__(pkg_name); what that import raised propagates
RunDetailsImported(name, st) ==
    IF st.exc # "none" THEN [code |-> None, st |-> st]
    ELSE RunDetailsFound(name,
             importlib_util_find_spec(name, RunWarnExisting(name, st)))

_get_module_details(name, st) ==
    RunDetailsImported(name, RunImportPackage(name, st))

\* runpy._run_code: the code of the file runs as run_name; what it raises
\* propagates
RunCode(name, d) ==
    IF d.code = None THEN d.st
    ELSE [d.st EXCEPT
            !.log = @ \o << [kind |-> "exec", mod |-> name,
                             run_name |-> "__main__"] >>
                      \o (IF Canon(d.code[1]) \in Boom THEN <<>>
                          ELSE << [kind |-> "returned"] >>),
            !.exc = IF Canon(d.code[1]) \in Boom THEN "RuntimeError"
                    ELSE "none"]

\* runpy.run_module(new_mod, run_name='__main__')
run_module(new_mod, st) ==
    IF new_mod[1] = "." THEN [st EXCEPT !.exc = "ImportError"]
    ELSE RunCode(DotSplit(new_mod), _get_module_details(DotSplit(new_mod), st))

\* what a call leaves behind
MainResult(exc, log, sp, mods) ==
    [exc |-> exc, ret |-> None, log |-> log, sys_path |-> sp,
     sys_modules |-> mods]

\* a variant that raises the interrupt whatever the run did
MainAfterRunAlways(r) ==
    MainResult("IfMainInterrupt", r.log, r.sys_path, r.mods)

\* raise IfMainInterrupt once run_module has returned
MainAfterRun(r) ==
    MainResult(IF r.exc = "none" THEN "IfMainInterrupt" ELSE r.exc,
               r.log, r.sys_path, r.mods)

\* warnings.warn(IfMainExecuting(...)), then runpy.run_module(new_mod)
MainRun(new_mod, mod_name, sp, mp, mods) ==
    MainAfterRun(
        run_module(new_mod,
                   [finders |-> mp, sys_path |-> sp, mods |-> mods,
                    exc |-> "none",
                    log |-> << [kind |-> "IfMainExecuting",
                                new_mod |-> new_mod, from |-> mod_name] >>]))

MainRedirect(mod_name, mod, sp, mp, mods) ==
    MainRun(NewMod(StripLevels(DotSplit(mod_name), mod)), mod_name,
            sp, mp, mods)

\* if_main_run(run_this_module) called from the namespace gl
if_main_run(s, gl, sp, mp, mods) ==
    IF gl.name # "__main__" THEN MainResult("none", <<>>, sp, mods)
    ELSE IF gl.file = None THEN MainResult("KeyError", <<>>, sp, mods)
    ELSE IF gl.package = None THEN MainResult("TypeError", <<>>, sp, mods)
    ELSE MainRedirect(MainModName(gl), Strip(s), sp, mp, mods)

\* ------------------------------------------------------ if_main_run inputs
MainCallers ==
    { Main(<<"/", "t", "package", "aaa.py">>),
      Main(<<"/", "t", "package", "thing", "aaa.py">>),
      Main(<<"/", "t", "ns", "a", "test.py">>),
      Caller("__main__", None, None),
      Caller("__main__", Some(<<"/", "t", "package", "aaa.py">>),
             Some(<< "" >>)),
      Caller("__main__", Some(<<"/", "t", "package", "__init__.py">>),
             Some(<<"package">>)),
      Caller("package.aaa", Some(<<"/", "t", "package", "aaa.py">>),
             Some(<<"package">>)) }

\* the specifiers tive is called with before the redirect
MainSpecifiers == { <<".">>, <<".", ".">> }

Targets ==
    { <<".", "xyz">>, <<" ", ".", "xyz", " ">>, <<".", ".", "xyz">>,
      <<".", "boom">>, <<".", "nope">>, <<".", "thing">>, <<"xyz">>,
      <<".", "thing", ".", "xyz">>, <<".", "boom", ".", "xyz">> }

\* sys.modules when the target was already imported under its own name
PreModsXyz ==
    (<<"package">> :>
        Module(<<"package">>, << <<"/", "t", "package">> >>, "regular"))
    @@ (<<"package", "xyz">> :>
           FileModule(<<"package", "xyz">>, <<"/", "t", "package", "xyz.py">>))

\* ----------------------------------------------------- if_main_run actions
\* the effect of an if_main_run call with result r
IfMainApply(s, r) ==
    /\ sys_path' = r.sys_path
    /\ sys_modules' = r.sys_modules
    /\ last' = [op |-> "if_main_run", s |-> s,
                pre |-> [g |-> g, sys_path |-> sys_path,
                         sys_meta_path |-> sys_meta_path,
                         sys_modules |-> sys_modules],
                exc |-> r.exc, ret |-> r.ret, log |-> r.log]
    /\ ret' = None
    /\ UNCHANGED <<sys_meta_path, g, scopes, cls, deco>>

\* rela.if_main_run(s) called from the namespace g
IfMainRun(s) ==
    IfMainApply(s, if_main_run(s, g, sys_path, sys_meta_path, sys_modules))

InitMain ==
    /\ sys_path \in { SitePath, << <<"/", "t">> >> \o SitePath }
    /\ sys_meta_path = <<>>
    /\ sys_modules \in { EmptyMods, PreModsXyz }
    /\ g \in MainCallers
    /\ scopes = <<>>
    /\ ret = None
    /\ cls = [id |-> "none"]
    /\ deco = None
    /\ last = [op |-> "init"]

NextMain ==
    \/ \E s \in MainSpecifiers : Tive(s)
    \/ \E s \in Targets : IfMainRun(s)

SpecMain == InitMain /\ [][NextMain]_vars

\* --------------------------------------------------------------- rela.test
\* A class is its identity (id), whether unittest.TestCase is in its __mro__,
\* and its attributes by name: its own (own) and those of its base class
\* (base), each None or a method.  A method carries the keep marker or not,
\* the line of its definition, and whether it fails when run as a test.
Method(keep, line, fails) == [keep |-> keep, line |-> line, fails |-> fails]

\* the attribute names in use, in sorted order
NameOrder == <<"setUp", "test_a", "test_b", "testing">>
NamePos(n) == CHOOSE i \in 1..Len(NameOrder) : NameOrder[i] = n

\* name.startswith('test_'), and startswith('test') of the unittest loader
startswith_test_(n) == n \in {"test_a", "test_b"}
startswith_test(n) == n \in {"test_a", "test_b", "testing"}

\* dir(cls): the names of the class and its base, sorted
dir(c) ==
    LET has(n) == c.own[n] # None \/ c.base[n] # None
    IN  SelectSeq(NameOrder, has)

\* getattr(cls, name): the class's own attribute comes before the base's
getattr(c, n) == IF c.own[n] # None THEN c.own[n][1] ELSE c.base[n][1]

\* hasattr(obj, '_test_keep__')
has_test_keep(c, n) == getattr(c, n).keep

\* the test methods of case(): the names of dir(cls) that start with test_
TestAttrs(c) == SelectSeq(dir(c), startswith_test_)

\* the list remove of case(), sorted: dir(cls) is sorted already
RemoveNames(c) ==
    LET unmarked(n) == ~ has_test_keep(c, n) IN SelectSeq(TestAttrs(c), unmarked)

\* the order of the (line, text) pairs of the list keep
KeepBefore(c, a, b) ==
    \/ getattr(c, a).line < getattr(c, b).line
    \/ getattr(c, a).line = getattr(c, b).line /\ NamePos(a) < NamePos(b)

\* keep.sort(): insertion of one name into a sorted list
RECURSIVE KeepInsert(_, _, _)
KeepInsert(c, n, sorted) ==
    IF sorted = <<>> THEN << n >>
    ELSE IF KeepBefore(c, n, Head(sorted)) THEN << n >> \o sorted
    ELSE << Head(sorted) >> \o KeepInsert(c, n, Tail(sorted))

RECURSIVE KeepSort(_, _)
KeepSort(c, names) ==
    IF names = <<>> THEN <<>>
    ELSE KeepInsert(c, Head(names), KeepSort(c, Tail(names)))

\* the list keep of case(), sorted by line
KeepNames(c) ==
    LET marked(n) == has_test_keep(c, n)
    IN  KeepSort(c, SelectSeq(TestAttrs(c), marked))

\* what a decorator call leaves behind
TestResult(exc, r, log, c) == [exc |-> exc, ret |-> r, log |-> log, cls |-> c]

\* for r in remove: delattr(cls, r) -- delattr deletes an attribute of the
\* class itself and raises AttributeError when the class has none
RECURSIVE DelAttrs(_, _, _)
DelAttrs(c, remove, log) ==
    IF remove = <<>> THEN TestResult("none", Some(c.id), log, c)
    ELSE IF c.own[Head(remove)] = None
    THEN TestResult("AttributeError", None, log, c)
    ELSE DelAttrs([c EXCEPT !.own[Head(remove)] = None], Tail(remove), log)

\* the TestCaseFilter warning of case()
CaseWarning(remove, keep) ==
    << [kind |-> "TestCaseFilter", removed |-> Len(remove), keeping |-> keep] >>

CaseFilter(c, remove, keep) ==
    IF keep = <<>> THEN TestResult("none", Some(c.id), <<>>, c)
    ELSE DelAttrs(c, remove, CaseWarning(remove, keep))

\* the decorator that case() returns, applied to the class c
case_decorator(c) ==
    IF ~ c.testcase THEN TestResult("AssertionError", None, <<>>, c)
    ELSE CaseFilter(c, RemoveNames(c), KeepNames(c))

\* kw.setdefault('verbosity', 2)
setdefault_verbosity(kw) ==
    IF "verbosity" \in DOMAIN kw THEN kw ELSE ("verbosity" :> 2) @@ kw

\* run(**kw) called from the namespace gl: the decorator it returns
run(kw, gl) ==
    IF gl.name # "__main__" THEN [kind |-> "passthrough"]
    ELSE [kind |-> "runner", kw |-> setdefault_verbosity(kw)]

\* unittest.TestLoader().loadTestsFromTestCase(cls): the names of dir(cls)
\* that start with test
loadTestsFromTestCase(c) == SelectSeq(dir(c), startswith_test)

\* TextTestRunner(**kw).run(suite): the outcome of every test that was run,
\* in order; with failfast the run stops at the first failure
RECURSIVE RunSuite(_, _, _)
RunSuite(c, tests, failfast) ==
    IF tests = <<>> THEN <<>>
    ELSE << [test |-> Head(tests),
             ok |-> ~ getattr(c, Head(tests)).fails] >>
         \o (IF failfast /\ getattr(c, Head(tests)).fails THEN <<>>
             ELSE RunSuite(c, Tail(tests), failfast))

\* a variant that raises RelaTestRunDone only after a successful run
RunnerAfterRunOk(c, kw, results) ==
    LET passed(r) == r.ok
    IN  TestResult(IF SelectSeq(results, passed) = results
                   THEN "RelaTestRunDone" ELSE "none",
                   IF SelectSeq(results, passed) = results THEN None
                   ELSE Some(c.id),
                   << [kind |-> "RelaTestRunning"],
                      [kind |-> "run", verbosity |-> kw["verbosity"],
                       results |-> results] >>, c)

\* raise RelaTestRunDone() once the runner has returned
RunnerAfterRun(c, kw, results) ==
    TestResult("RelaTestRunDone", None,
               << [kind |-> "RelaTestRunning"],
                  [kind |-> "run", verbosity |-> kw["verbosity"],
                   results |-> results] >>, c)

\* the decorator of run() for the entry context, applied to the class c
runner_decorator(c, kw) ==
    IF ~ c.testcase THEN TestResult("AssertionError", None, <<>>, c)
    ELSE RunnerAfterRun(c, kw,
             RunSuite(c, loadTestsFromTestCase(c),
                      "failfast" \in DOMAIN kw /\ kw["failfast"]))

\* the decorator d that run() returned, applied to the class c
run_decorator(d, c, gl) ==
    IF d.kind = "passthrough" THEN TestResult("none", Some(c.id), <<>>, c)
    ELSE runner_decorator(c, d.kw)

\* ------------------------------------------------------- rela.test inputs
\* the lines at which the methods are defined
OwnLine(n) == 10 + 2 * (Len(NameOrder) - NamePos(n))
BaseLine(n) == 2 + NamePos(n)

\* what a class can hold under a test_ name: nothing, an unmarked method, a
\* marked one, an unmarked one that fails
OwnChoices(n) ==
    { None, Some(Method(FALSE, OwnLine(n), FALSE)),
      Some(Method(TRUE, OwnLine(n), FALSE)),
      Some(Method(FALSE, OwnLine(n), TRUE)) }

BaseChoices(n) ==
    { None, Some(Method(FALSE, BaseLine(n), FALSE)),
      Some(Method(TRUE, BaseLine(n), FALSE)) }

\* the attributes under the names that are no test_ names
PlainOwn(t) ==
    ("setUp" :> Some(Method(FALSE, OwnLine("setUp"), FALSE)))
    @@ ("testing" :> t)

TestCaseClasses ==
    { [id |-> "Test", testcase |-> TRUE,
       own |-> ("test_a" :> oa) @@ ("test_b" :> ob) @@ PlainOwn(t),
       base |-> ("test_a" :> ba) @@ ("test_b" :> bb)
                @@ ("setUp" :> None) @@ ("testing" :> None)] :
      oa \in OwnChoices("test_a"), ob \in OwnChoices("test_b"),
      ba \in BaseChoices("test_a"), bb \in BaseChoices("test_b"),
      t \in { None, Some(Method(FALSE, OwnLine("testing"), FALSE)) } }

\* a class that is no TestCase
Plain ==
    [id |-> "Plain", testcase |-> FALSE,
     own |-> ("test_a" :> Some(Method(TRUE, OwnLine("test_a"), FALSE)))
             @@ ("test_b" :> None) @@ PlainOwn(None),
     base |-> [n \in { NameOrder[i] : i \in 1..Len(NameOrder) } |-> None]]

TestCallers ==
    { Caller("__main__", Some(<<"/", "t", "case", "a.py">>), None),
      Caller("case.a", Some(<<"/", "t", "case", "a.py">>), None) }

Keywords ==
    { [k \in {} |-> 0], ("verbosity" :> 1), ("failfast" :> TRUE) }

\* ------------------------------------------------------ rela.test actions
\* the rest of the state, which the test helpers leave alone
TestFrame ==
    UNCHANGED <<sys_path, sys_meta_path, sys_modules, g, scopes, ret>>

\* the effect of a case decorator call with result r
CaseApply(r) ==
    /\ cls' = r.cls
    /\ last' = [op |-> "case", pre |-> cls, exc |-> r.exc, ret |-> r.ret,
                log |-> r.log]
    /\ UNCHANGED deco
    /\ TestFrame

\* @rela.test.case() applied to the class
Case == CaseApply(case_decorator(cls))

\* rela.test.keep() applied to the function getattr(cls, n):
\* setattr(func, '_test_keep__', True), on the class's own method or on
\* the one it inherits
Keep(n) ==
    /\ In(n, dir(cls))
    /\ cls' = IF cls.own[n] # None
              THEN [cls EXCEPT !.own[n] = Some([@[1] EXCEPT !.keep = TRUE])]
              ELSE [cls EXCEPT !.base[n] = Some([@[1] EXCEPT !.keep = TRUE])]
    /\ last' = [op |-> "keep", name |-> n, pre |-> cls]
    /\ UNCHANGED deco
    /\ TestFrame

\* rela.test.run(**kw) called from the namespace g
Run(kw) ==
    /\ deco' = Some(run(kw, g))
    /\ last' = [op |-> "run", kw |-> kw, pre |-> cls]
    /\ UNCHANGED cls
    /\ TestFrame

\* the effect of a run decorator call with result r
DecorateApply(r) ==
    /\ cls' = r.cls
    /\ last' = [op |-> "decorate", pre |-> cls, deco |-> deco[1],
                g |-> g, exc |-> r.exc, ret |-> r.ret, log |-> r.log]
    /\ UNCHANGED deco
    /\ TestFrame

\* the decorator that run() returned is applied to the class
Decorate ==
    /\ deco # None
    /\ DecorateApply(run_decorator(deco[1], cls, g))

InitTest ==
    /\ sys_path = SitePath
    /\ sys_meta_path = <<>>
    /\ sys_modules = EmptyMods
    /\ g \in TestCallers
    /\ scopes = <<>>
    /\ ret = None
    /\ cls \in TestCaseClasses \cup { Plain }
    /\ deco = None
    /\ last = [op |-> "init"]

NextTest ==
    \/ Case
    \/ \E n \in { NameOrder[i] : i \in 1..Len(NameOrder) } : Keep(n)
    \/ \E kw \in Keywords : Run(kw)
    \/ Decorate

SpecTest == InitTest /\ [][NextTest]_vars

\* ------------------------------------------------- RelaModuleFinder scopes
\* a finder object in a with-block: the field id is its object identity
FinderObject(id, f) == [id |-> id] @@ f

\* the identity of a new object: one that no live finder has
NewId(mp) ==
    CHOOSE n \in 1..(Len(mp) + 1) : \A i \in 1..Len(mp) : mp[i].id # n

\* RelaModuleFinder.__enter__: sys.meta_path.insert(0, self)
Finder__enter__(self, mp) == Insert0(mp, self)

\* the place of the object id in sys.meta_path, 0 if it is not there
RECURSIVE ObjectIndex(_, _, _)
ObjectIndex(mp, id, i) ==
    IF i > Len(mp) THEN 0
    ELSE IF mp[i].id = id THEN i
    ELSE ObjectIndex(mp, id, i + 1)

\* sys.meta_path.remove(self): the first place that holds the object
RemoveObject(mp, i) == SubSeq(mp, 1, i - 1) \o SubSeq(mp, i + 1, Len(mp))

\* what __exit__ leaves behind
FinderExited(exc, mp, log) == [exc |-> exc, meta_path |-> mp, log |-> log]

\* a variant that removes the finder only when it found its module
Finder__exit__AtFound(i, mp, mods) ==
    IF i = 0 THEN FinderExited("ValueError", mp, <<>>)
    ELSE FinderExited("none",
                      IF mp[i].found THEN RemoveObject(mp, i) ELSE mp,
                      FinderExitLog(mp[i], mods))

\* RelaModuleFinder.__exit__ of the object at place i of sys.meta_path
Finder__exit__At(i, mp, mods) ==
    IF i = 0 THEN FinderExited("ValueError", mp, <<>>)
    ELSE FinderExited("none", RemoveObject(mp, i), FinderExitLog(mp[i], mods))

Finder__exit__(id, mp, mods) ==
    Finder__exit__At(ObjectIndex(mp, id, 1), mp, mods)

\* -------------------------------------------------- finder scope inputs
\* the (mod_name, mod_path) pairs finders are made with: a regular package,
\* a namespace package, and a directory that does not exist
FinderTargets ==
    { << "package", <<"/", "t", "package">> >>,
      << "ns", <<"/", "t", "ns">> >>,
      << "bad", <<"/", "t", "bad">> >>,
      << "notfound", <<"/", "gone">> >> }

\* the names imported inside the with-blocks; the code of package.boom and
\* the initializer of bad raise
ImportNames ==
    { <<"package">>, <<"package", "boom">>, <<"ns", "a">>, <<"bad">>,
      <<"notfound">> }

\* the specifiers of the tive calls made inside the with-blocks: one whose
\* import succeeds and one whose import fails
FinderSpecifiers == { <<".", ".">>, <<".", ".", ".", ".">> }

\* -------------------------------------------------- finder scope actions
\* with RelaModuleFinder(mod_name, mod_path): -- the block is entered
FinderEnter(t) ==
    /\ Len(scopes) < MaxScopes
    /\ sys_meta_path' =
           Finder__enter__(FinderObject(NewId(sys_meta_path),
                                        RelaModuleFinder(t[1], t[2])),
                           sys_meta_path)
    /\ scopes' = << [id |-> NewId(sys_meta_path), before |-> sys_meta_path] >>
                 \o scopes
    /\ last' = [op |-> "finder_enter", id |-> NewId(sys_meta_path)]
    /\ ret' = None
    /\ UNCHANGED <<sys_path, sys_modules, g, cls, deco>>

\* the effect of an import with result r
FinderImportApply(name, r) ==
    /\ sys_meta_path' = r.finders
    /\ sys_path' = r.sys_path
    /\ sys_modules' = r.mods
    /\ last' = [op |-> "import", name |-> name, exc |-> r.exc,
                pre |-> [sys_path |-> sys_path,
                         sys_meta_path |-> sys_meta_path,
                         sys_modules |-> sys_modules]]
    /\ ret' = None
    /\ UNCHANGED <<scopes, g, cls, deco>>

\* importlib.import_module(name) in the body of the innermost block
FinderImport(name) ==
    /\ scopes # <<>>
    /\ FinderImportApply(name, import_module(name, sys_meta_path, sys_path,
                                             sys_modules))

\* the effect of the __exit__ with result r
FinderExitApply(exc, r) ==
    /\ sys_meta_path' = r.meta_path
    /\ scopes' = Tail(scopes)
    /\ last' = [op |-> "finder_exit", exc |-> exc, id |-> Head(scopes).id,
                before |-> Head(scopes).before,
                raised |-> r.exc, log |-> r.log,
                pre |-> [sys_path |-> sys_path,
                         sys_meta_path |-> sys_meta_path,
                         sys_modules |-> sys_modules]]
    /\ ret' = None
    /\ UNCHANGED <<sys_path, sys_modules, g, cls, deco>>

\* the innermost with-block ends, normally or by an exception of its body
FinderExit(exc) ==
    /\ scopes # <<>>
    /\ FinderExitApply(exc, Finder__exit__(Head(scopes).id, sys_meta_path,
                                           sys_modules))

InitFinder ==
    /\ sys_path \in { SitePath, << <<"/", "t">> >> \o SitePath }
    /\ sys_meta_path = <<>>
    /\ sys_modules = EmptyMods
    /\ g = Main(<<"/", "t", "ns", "a", "test.py">>)
    /\ scopes = <<>>
    /\ ret = None
    /\ cls = [id |-> "none"]
    /\ deco = None
    /\ last = [op |-> "init"]

NextFinder ==
    \/ \E t \in FinderTargets : FinderEnter(t)
    \/ \E n \in ImportNames : FinderImport(n)
    \/ \E exc \in BOOLEAN : FinderExit(exc)
    \/ \E s \in FinderSpecifiers : Tive(s)

SpecFinder == InitFinder /\ [][NextFinder]_vars

\* ------------------------------------------- tive with a crowded sys.path
\* sys.path before the call: the parent directory that the namespace mode
\* prepends ("//t" for a script under /t/ns, "." for a relative script) may
\* be on it already, in front or at the back
CrowdedPaths ==
    { SitePath,
      << <<"//", "t">> >> \o SitePath,
      SitePath \o << <<"//", "t">> >>,
      << <<"/", "t">> >> \o SitePath \o << <<"//", "t">> >>,
      << <<>> >> \o SitePath,
      SitePath \o << <<>>, <<>> >> }

\* scripts below directories without an __init__.py, one of them in a
\* directory that does not exist
NamespaceCallers ==
    { Main(<<"/", "t", "ns", "a", "test.py">>),
      Main(<<"/", "t", "ns", "gone", "s.py">>),
      Main(<<"thing", "aaa.py">>),
      Main(<<"/", "t", "package", "thing", "aaa.py">>),
      Caller("ns.a.test", Some(<<"/", "t", "ns", "a", "test.py">>), None) }

InitNamespace ==
    /\ sys_path \in CrowdedPaths
    /\ sys_meta_path = <<>>
    /\ sys_modules \in { EmptyMods, PreMods }
    /\ g \in NamespaceCallers
    /\ scopes = <<>>
    /\ ret = None
    /\ cls = [id |-> "none"]
    /\ deco = None
    /\ last = [op |-> "init"]

SpecNamespace == InitNamespace /\ [][NextTive]_vars

\* ================================================================== claims
\* the entries of seq other than d, in their order
Others(seq, d) == LET keep(e) == e # d IN SelectSeq(seq, keep)

\* an absolute, normalised directory
IsNormalAbs(d) ==
    /\ IsAbs(d)
    /\ \A i \in 1..Len(d) : d[i] \notin {".", ".."}

\* C1: after path(d, top) returns, sys.path is the previous sys.path with every
\* occurrence of the absolute directory removed and the directory inserted
\* once, at index 0 when top and at the last index otherwise: it occurs
\* exactly once, and every other entry keeps its multiplicity and order.
C1_PathInsertedOnce ==
    last.op = "path" =>
        LET d == last.p2
            rest == Others(last.pre_path, d)
        IN  /\ IsNormalAbs(d)
            /\ sys_path = IF last.top THEN <<d>> \o rest ELSE rest \o <<d>>
            /\ Count(d, sys_path) = 1
            /\ sys_path[IF last.top THEN 1 ELSE Len(sys_path)] = d
            /\ Others(sys_path, d) = Others(last.pre_path, d)
            /\ ret = Some(d)

\* the directory occurred several times, none of them at the requested end
C1_Witness ==
    /\ last.op = "path"
    /\ last.top
    /\ Count(last.p2, last.pre_path) >= 2
    /\ last.pre_path[1] # last.p2
    /\ Len(Others(last.pre_path, last.p2)) >= 1

\* C2: entering the scope of a value path() returned changes nothing; after the
\* scope exits, normally or by an exception of the body, the directory does
\* not occur in sys.path at all.
C2_ScopeExitRemovesAll ==
    /\ last.op = "enter" => sys_path = last.pre_path /\ Head(scopes) = last.s
    /\ last.op = "exit" =>
          /\ ~ In(last.s, sys_path)
          /\ sys_path = Others(last.pre_path, last.s)

\* the body raised, and the directory had been added again during the scope
C2_Witness ==
    /\ last.op = "exit"
    /\ last.exc = "Exception"
    /\ Count(last.s, last.pre_path) >= 2

\* C3: when the caller of path(d) is not the entry context, sys.path after the
\* call is the same sequence as before the call.
C3_NotMainPathNoOp ==
    (last.op = "path" /\ last.g.name # "__main__") => sys_path = last.pre_path

\* ---------------------------------------------------------- claims on tive
\* the segments of the file the last tive call took its caller to have
LastParts == CallerFile(last.pre.g)

\* the last call was tive, made from the entry context
TiveFromMain == last.op = "tive" /\ last.pre.g.name = "__main__"

\* the global state and the caller's namespace are as before the last call
TiveChangedNothing ==
    /\ sys_path = last.pre.sys_path
    /\ sys_meta_path = last.pre.sys_meta_path
    /\ sys_modules = last.pre.sys_modules
    /\ g = last.pre.g

\* a specifier of k periods
Dots(k) == [i \in 1..k |-> "."]

\* the package a relative import with `level` periods starts from, given
\* __package__ (importlib._bootstrap._resolve_name)
RelativeBase(package, level) == SubSeq(package, 1, Len(package) - (level - 1))

\* C4: when the caller of tive(s) is not the entry context, tive returns None
\* for every specifier and mutates nothing: sys.modules, sys.path,
\* sys.meta_path and the caller's __package__ and __spec__ are unchanged, no
\* finder is installed and no error is raised.
C4_NotMainTiveNoOp ==
    (last.op = "tive" /\ last.pre.g.name # "__main__") =>
        /\ last.ret = None
        /\ last.exc = "none"
        /\ last.finder = None
        /\ last.name = None
        /\ last.log = <<>>
        /\ TiveChangedNothing

\* a non-entry caller without __package__ gave a bare name that is no segment
\* of its path
C4_Witness ==
    /\ last.op = "tive"
    /\ last.pre.g.name # "__main__"
    /\ last.pre.g.package = None
    /\ last.s = <<"nope">>

\* the case of C5: k periods, 1 <= k <= n-1, from the entry context
C5_Case ==
    /\ TiveFromMain
    /\ last.s # <<>>
    /\ last.s = Dots(Len(last.s))
    /\ Len(last.s) <= Len(LastParts) - 1

\* the dotted name p(n-k).....p(n-1) and the directory p1..p(n-k)
C5_Name == SubSeq(LastParts, Len(LastParts) - Len(last.s), Len(LastParts) - 1)
C5_Dir == SubSeq(LastParts, 1, Len(LastParts) - Len(last.s))

\* the finder was installed for the top-level name p(n-k) and the directory
\* p1..p(n-k), and the import asked for the dotted name
C5_FinderAndName ==
    /\ last.finder # None
    /\ last.finder[1].mod_name = C5_Name[1]
    /\ Canon(last.finder[1].mod_path) = Canon(C5_Dir)
    /\ last.name = Some(C5_Name)

\* the module of the dotted name was returned and bound
C5_Bound ==
    /\ last.exc = "none"
    /\ last.ret # None
    /\ last.ret[1].name = C5_Name
    /\ <<C5_Name[1]>> \in DOMAIN sys_modules
    /\ C5_Name \in DOMAIN sys_modules
    /\ last.pre.g.package = None =>
          /\ g.package = Some(C5_Name)
          /\ RelativeBase(g.package[1], Len(last.s)) = <<C5_Name[1]>>
    /\ last.pre.g.package # None => g.package = last.pre.g.package

\* C5 as claimed: for an entry-context caller whose file path has segments
\* p1..pn and a specifier of k periods, 1 <= k <= n-1, tive installs its finder
\* for p(n-k) with directory p1..p(n-k), imports and returns the module
\* p(n-k).....p(n-1) and sets __package__ to that name when it was unset.
C5_AsClaimed == C5_Case => (C5_FinderAndName /\ C5_Bound)

\* the initializer of a package of the dotted name raises
C5_InitializerRaises ==
    \E i \in 1..Len(C5_Name) :
        \E b \in Boom : /\ b[Len(b)] = "__init__.py"
                        /\ b[Len(b) - 1] = C5_Name[i]

\* the top-level name is found neither by the finder, in sys.modules, nor
\* on sys.path
C5_NowhereFound ==
    /\ ~ is_dir(C5_Dir)
    /\ << C5_Name[1] >> \notin DOMAIN last.pre.sys_modules
    /\ PathFinder(<< C5_Name[1] >>, None, last.pre.sys_path) = None

\* C5 as amended: the finder and the imported name are as claimed; the module
\* is returned and bound when the import succeeds.  The import fails with
\* ModuleNotFoundError, or with what the initializer of a package of the
\* dotted name raises, and the exception propagates with nothing returned,
\* the caller's namespace unchanged and the finder removed again.  It fails
\* with ModuleNotFoundError for k = n-1 on an absolute path, where the
\* top-level name is the root, and when the top-level name is found nowhere.
C5_ImportsAncestor ==
    C5_Case =>
        /\ C5_FinderAndName
        /\ last.exc \in {"none", "ModuleNotFoundError", "RuntimeError"}
        /\ last.exc = "none" => C5_Bound
        /\ last.exc # "none" =>
              /\ last.ret = None
              /\ g = last.pre.g
              /\ C5_Name \notin DOMAIN sys_modules
        /\ last.exc = "RuntimeError" => C5_InitializerRaises
        /\ (Len(last.s) = Len(LastParts) - 1 /\ IsAbs(LastParts)) =>
              last.exc = "ModuleNotFoundError"
        /\ C5_NowhereFound => last.exc = "ModuleNotFoundError"
        /\ sys_meta_path = last.pre.sys_meta_path

\* one period from a package whose initializer raises: the error of the
\* initializer propagated
C5_InitializerRaised ==
    /\ C5_Case
    /\ last.exc = "RuntimeError"
    /\ last.finder # None

\* the script's directory does not exist and the package of its name on
\* sys.path was imported
C5_ImportedFromSysPath ==
    /\ C5_Case
    /\ ~ is_dir(C5_Dir)
    /\ last.exc = "none"
    /\ << C5_Name[1] >> \notin DOMAIN last.pre.sys_modules

\* two periods from package/thing/aaa.py: the import succeeded through the
\* finder and __package__ was set
C5_Witness ==
    /\ C5_Case
    /\ Len(last.s) = 2
    /\ last.exc = "none"
    /\ last.pre.g.package = None
    /\ <<C5_Name[1]>> \notin DOMAIN last.pre.sys_modules
    /\ g.package = Some(<<"package", "thing">>)

\* the result r of a tive call is the one the last call had and left behind
SameAsLast(r) ==
    /\ r.exc = last.exc
    /\ r.ret = last.ret
    /\ r.finder = last.finder
    /\ r.name = last.name
    /\ r.log = last.log
    /\ r.g = g
    /\ r.sys_path = sys_path
    /\ r.sys_meta_path = sys_meta_path
    /\ r.sys_modules = sys_modules

\* C6: for an entry-context caller and a non-empty bare name that equals some
\* segment of the caller's path, tive(s) has the result of tive with m
\* periods, m the number of segments from the first matching segment to the
\* end, minus one: the same outcome, returned module, finder, bindings on the
\* caller and global state.
C6_NameIsPeriods ==
    (TiveFromMain /\ ByName(last.s) /\ In(last.s[1], LastParts)) =>
        LET first == CHOOSE i \in 1..Len(LastParts) :
                        /\ LastParts[i] = last.s[1]
                        /\ \A j \in 1..(i-1) : LastParts[j] # last.s[1]
            m == (Len(LastParts) - first + 1) - 1
        IN  SameAsLast(_tive(Dots(m), last.pre.g, last.pre.sys_path,
                             last.pre.sys_meta_path, last.pre.sys_modules))

\* the name matches two segments and the call bound the package of the first
C6_Witness ==
    /\ TiveFromMain
    /\ last.s = <<"package">>
    /\ Count("package", LastParts) = 2
    /\ last.exc = "none"
    /\ last.pre.g.package = None
    /\ g.package = Some(<<"package", "package">>)

\* C7: for an entry-context caller and a non-empty bare name that equals no
\* segment of the caller's path, tive fails with FileNotFoundError before it
\* touches any global state: sys.meta_path, sys.path, sys.modules and the
\* caller's __package__ and __spec__ are as before, and no import is attempted.
C7_NotFoundTouchesNothing ==
    (TiveFromMain /\ ByName(last.s) /\ ~ In(last.s[1], LastParts)) =>
        /\ last.exc = "FileNotFoundError"
        /\ last.ret = None
        /\ last.finder = None
        /\ last.name = None
        /\ last.log = <<>>
        /\ TiveChangedNothing

\* an entry script without __package__ asked for a name that is none of its
\* segments
C7_Witness ==
    /\ TiveFromMain
    /\ last.s = <<"nope">>
    /\ last.pre.g.file # None
    /\ last.pre.g.package = None
    /\ last.exc = "FileNotFoundError"

\* ------------------------------------------------------------ if_main_run
\* the last call was if_main_run from the entry context, or from another one
MainFromEntry == last.op = "if_main_run" /\ last.pre.g.name = "__main__"
MainFromOther == last.op = "if_main_run" /\ last.pre.g.name # "__main__"

\* the events of one kind in a log, in their order
OfKind(log, k) == LET is(e) == e.kind = k IN SelectSeq(log, is)

\* the call changed neither sys.path nor sys.modules nor the namespace
MainChangedNothing ==
    /\ sys_path = last.pre.sys_path
    /\ sys_modules = last.pre.sys_modules
    /\ sys_meta_path = last.pre.sys_meta_path
    /\ g = last.pre.g

\* the non-entry half of C8: None is returned and nothing happened
MainSkipped ==
    MainFromOther =>
        /\ last.exc = "none"
        /\ last.ret = None
        /\ last.log = <<>>
        /\ MainChangedNothing

\* C8 as claimed: every entry-context call emits IfMainExecuting first, then
\* executes the target exactly once as "__main__", and after that execution
\* has completed raises IfMainInterrupt; a non-entry call returns None and
\* does nothing
C8_AsClaimed ==
    /\ MainFromEntry =>
           /\ last.log # <<>>
           /\ last.log[1].kind = "IfMainExecuting"
           /\ Len(OfKind(last.log, "exec")) = 1
           /\ OfKind(last.log, "exec")[1].run_name = "__main__"
           /\ last.log[Len(last.log)].kind = "returned"
           /\ last.exc = "IfMainInterrupt"
    /\ MainSkipped

\* C8 (amended): an entry-context call never returns normally.  Without a
\* __file__ or with __package__ None it raises KeyError or TypeError before
\* anything is emitted or executed.  Otherwise IfMainExecuting, naming the
\* target, is the first event; the target is executed at most once, as
\* "__main__" and after the diagnostic; IfMainInterrupt is raised exactly
\* when that execution completed, as the last thing that happens, and
\* otherwise the error of the run is what the call raises.  A non-entry call
\* returns None and does nothing.
C8_RedirectOrError ==
    /\ MainFromEntry =>
           /\ last.exc # "none"
           /\ (last.pre.g.file = None \/ last.pre.g.package = None) =>
                  /\ last.exc = (IF last.pre.g.file = None THEN "KeyError"
                                 ELSE "TypeError")
                  /\ last.log = <<>>
                  /\ MainChangedNothing
           /\ (last.pre.g.file # None /\ last.pre.g.package # None) =>
                  /\ last.log # <<>>
                  /\ last.log[1].kind = "IfMainExecuting"
                  /\ Len(OfKind(last.log, "IfMainExecuting")) = 1
                  /\ Len(OfKind(last.log, "exec")) <= 1
                  /\ \A i \in 1..Len(last.log) :
                         last.log[i].kind = "exec" =>
                             /\ i > 1
                             /\ last.log[i].run_name = "__main__"
                             /\ DotJoin(last.log[i].mod) = last.log[1].new_mod
                  /\ last.exc = "IfMainInterrupt" <=>
                         /\ Len(OfKind(last.log, "exec")) = 1
                         /\ last.log[Len(last.log)].kind = "returned"
                  /\ last.exc # "IfMainInterrupt" =>
                         /\ OfKind(last.log, "returned") = <<>>
                         /\ last.exc \in {"ImportError", "RuntimeError"}
    /\ MainSkipped

\* an entry-context call, after tive('.') set the package, that ran an
\* existing target to completion
C8_Witness ==
    /\ MainFromEntry
    /\ last.pre.g.spec # None
    /\ last.exc = "IfMainInterrupt"
    /\ Len(OfKind(last.log, "exec")) = 1
    /\ last.pre.sys_modules # sys_modules

\* -------------------------------------------------------------- rela.test
\* the test methods of a class that carry the keep marker
MarkedOf(c) ==
    LET marked(n) == has_test_keep(c, n) IN SelectSeq(TestAttrs(c), marked)

\* C9 as claimed: case() applied to a TestCase class returns the same class;
\* when a test method (own or inherited) is marked, the class then exposes
\* exactly the marked test methods and one TestCaseFilter warning was
\* emitted; when none is marked, the class is unchanged and nothing was
\* emitted
C9_AsClaimed ==
    (last.op = "case" /\ last.pre.testcase) =>
        /\ last.exc = "none"
        /\ last.ret = Some(last.pre.id)
        /\ cls.id = last.pre.id
        /\ IF MarkedOf(last.pre) # <<>>
           THEN /\ TestAttrs(cls) = MarkedOf(last.pre)
                /\ \A i \in 1..Len(TestAttrs(cls)) :
                       getattr(cls, TestAttrs(cls)[i])
                           = getattr(last.pre, TestAttrs(cls)[i])
                /\ Len(last.log) = 1
                /\ last.log[1].kind = "TestCaseFilter"
           ELSE /\ cls = last.pre
                /\ last.log = <<>>

\* C10: the decorator of a run() call from the entry context, applied to a
\* TestCase class, emits RelaTestRunning, then runs the suite of the class
\* once, and then raises RelaTestRunDone whatever the outcomes of the tests;
\* it returns nothing.  The decorator of a run() call from another context
\* returns the class as it is, runs nothing, emits nothing, raises nothing.
C10_RunThenDone ==
    /\ (last.op = "decorate" /\ last.pre.testcase /\ g.name = "__main__") =>
           /\ last.exc = "RelaTestRunDone"
           /\ last.ret = None
           /\ Len(last.log) = 2
           /\ last.log[1].kind = "RelaTestRunning"
           /\ last.log[2].kind = "run"
           /\ \A i \in 1..Len(last.log[2].results) :
                  last.log[2].results[i].test
                      = loadTestsFromTestCase(last.pre)[i]
           /\ ("failfast" \notin DOMAIN last.deco.kw) =>
                  Len(last.log[2].results)
                      = Len(loadTestsFromTestCase(last.pre))
           /\ cls = last.pre
    /\ (last.op = "decorate" /\ g.name # "__main__") =>
           /\ last.exc = "none"
           /\ last.ret = Some(last.pre.id)
           /\ last.log = <<>>
           /\ cls = last.pre
    /\ (last.op = "run" /\ g.name # "__main__") =>
           deco = Some([kind |-> "passthrough"])

\* a run from the entry context in which a test failed and another passed
C10_Witness ==
    /\ last.op = "decorate"
    /\ last.pre.testcase
    /\ g.name = "__main__"
    /\ last.exc = "RelaTestRunDone"
    /\ \E i, j \in 1..Len(last.log[2].results) :
           /\ ~ last.log[2].results[i].ok
           /\ last.log[2].results[j].ok

\* ------------------------------------------------------- finder scopes
\* the objects of a sys.meta_path, by identity
Ids(mp) == [i \in 1..Len(mp) |-> mp[i].id]

\* the finder object whose block the last step left, as it was at the exit
ExitedFinder ==
    last.pre.sys_meta_path[ObjectIndex(last.pre.sys_meta_path, last.id, 1)]

\* C11: the finder of every open with-block is in sys.meta_path; once a
\* block has ended, normally or by an exception of its body, its finder is
\* in sys.meta_path no more and sys.meta_path holds the objects it held
\* before the block was entered, in their order, also for nested blocks;
\* and a tive call, returning or raising, leaves sys.meta_path as it was
C11_FinderScoped ==
    /\ \A k \in 1..Len(scopes) :
           ObjectIndex(sys_meta_path, scopes[k].id, 1) # 0
    /\ last.op = "finder_enter" =>
           /\ sys_meta_path[1].id = last.id
           /\ Ids(Tail(sys_meta_path)) = Ids(Head(scopes).before)
    /\ last.op = "finder_exit" =>
           /\ last.raised = "none"
           /\ ObjectIndex(sys_meta_path, last.id, 1) = 0
           /\ Ids(sys_meta_path) = Ids(last.before)
    /\ last.op = "tive" =>
           Ids(sys_meta_path) = Ids(last.pre.sys_meta_path)

\* a nested block is left by an exception of its body
C11_Witness ==
    /\ last.op = "finder_exit"
    /\ last.exc
    /\ scopes # <<>>
    /\ last.before # <<>>
    /\ sys_meta_path # <<>>

\* inside an open block a tive call has raised from its failing import
C11_TiveRaisedInside ==
    /\ last.op = "tive"
    /\ last.exc = "ModuleNotFoundError"
    /\ sys_meta_path # <<>>

\* the RelaModuleNotFound warnings of a log
NotFoundWarnings(log) == OfKind(log, "RelaModuleNotFound")

\* an import changes the flags of a finder only when the name imported
\* starts with the finder's mod_name: for other names it answers None
OnlyOwnName ==
    last.op = "import" =>
        \A i \in 1..Len(sys_meta_path) :
            sys_meta_path[i] # last.pre.sys_meta_path[i] =>
                last.name[1] = sys_meta_path[i].mod_name

\* C12 as claimed: when a block ends, RelaModuleNotFound is emitted exactly
\* when the finder did not supply the spec of its module during the block
C12_AsClaimed ==
    /\ last.op = "finder_exit" =>
           (Len(NotFoundWarnings(last.log)) = 1 <=> ~ ExitedFinder.found)
    /\ OnlyOwnName

\* C12 (amended): when a block ends, RelaModuleNotFound is emitted, once,
\* exactly when the finder did not supply the spec of its module during the
\* block and its mod_name is not in sys.modules at that moment; it is not
\* emitted when the finder supplied the spec, nor when the module is in
\* sys.modules by other means.  A finder answers None for other names.
C12_NotFoundUnlessImported ==
    /\ last.op = "finder_exit" =>
           /\ Len(NotFoundWarnings(last.log)) <= 1
           /\ Len(NotFoundWarnings(last.log)) = 1 <=>
                  /\ ~ ExitedFinder.found
                  /\ << ExitedFinder.mod_name >> \notin DOMAIN sys_modules
    /\ OnlyOwnName

\* a block ends whose finder did not supply its module, which is in
\* sys.modules all the same
C12_Witness ==
    /\ last.op = "finder_exit"
    /\ ~ ExitedFinder.found
    /\ << ExitedFinder.mod_name >> \in DOMAIN sys_modules
    /\ last.log = <<>>

\* a block ends whose finder found nothing, and the warning is emitted
C12_Warned ==
    /\ last.op = "finder_exit"
    /\ ~ ExitedFinder.found
    /\ Len(NotFoundWarnings(last.log)) = 1
    /\ sys_modules # EmptyMods

\* ---------------------------------------------------- the namespace mode
\* the state in which the with-block of the last tive call ended, its finder
\* still first in sys.meta_path
TiveImported ==
    import_module(last.name[1],
                  Insert0(last.pre.sys_meta_path, last.finder[1]),
                  last.pre.sys_path, last.pre.sys_modules)

\* the last tive call made a finder that answered in namespace mode: its
\* top-level module was not imported yet and its directory has no
\* __init__.py
TiveNamespaceMode ==
    /\ last.op = "tive"
    /\ last.finder # None
    /\ << last.finder[1].mod_name >> \notin DOMAIN last.pre.sys_modules
    /\ is_dir(last.finder[1].mod_path)
    /\ ~ init_py_is_file(last.finder[1].mod_path)

\* C13: after a tive call, returning or raising, sys.path is the sequence it
\* was before the call, also when the finder answered in namespace mode and
\* the parent directory it prepends was on sys.path already; such a finder
\* has set its skip flag, by which it answers None at once while the
\* delegated lookup runs, and the package it supplied is in sys.modules
C13_SysPathRestored ==
    /\ last.op = "tive" => sys_path = last.pre.sys_path
    /\ TiveNamespaceMode =>
           /\ TiveImported.sys_path = last.pre.sys_path
           /\ TiveImported.finders[1].skip
           /\ TiveImported.finders[1].found =>
                  << last.finder[1].mod_name >> \in DOMAIN sys_modules

\* a call in namespace mode whose parent directory was on sys.path already,
\* behind another entry, and which raised after the package was found
C13_Witness ==
    /\ TiveNamespaceMode
    /\ last.exc = "ModuleNotFoundError"
    /\ Len(last.pre.sys_path) >= 2
    /\ last.pre.sys_path[1] # Parent(last.finder[1].mod_path)
    /\ In(Parent(last.finder[1].mod_path), last.pre.sys_path)

\* a call in namespace mode whose parent directory was on sys.path already
\* and which returned the namespace package
C13_Returned ==
    /\ TiveNamespaceMode
    /\ last.exc = "none"
    /\ last.ret[1].kind = "namespace"
    /\ In(Parent(last.finder[1].mod_path), last.pre.sys_path)

\* ------------------------------------------------------- path() scopes
\* C14 as claimed: the directory of every open with-block of path() is in
\* sys.path
C14_AsClaimed ==
    \A k \in 1..Len(scopes) : In(scopes[k], sys_path)

\* C14 (amended): the directory d of a path(d) call is in sys.path when the
\* call returns and when its with-block is entered, and while the block is
\* open no step takes d out of sys.path but the end of a with-block for the
\* same directory d, its own or one nested in it: further path() calls, the
\* ends of blocks for other directories and appends by hand leave it there
C14_RemovedOnlyByOwnExit ==
    /\ [](last.op = "path" => In(last.p2, sys_path))
    /\ [](last.op = "enter" => In(last.s, sys_path))
    /\ [][\A k \in 1..Len(scopes') :
              (In(scopes'[k], sys_path) /\ ~ In(scopes'[k], sys_path')) =>
                  (last'.op = "exit" /\ last'.s = scopes'[k])]_vars

\* a nested block for another directory has ended and the directory of the
\* enclosing block, not the first of sys.path, is still there
C14_Witness ==
    /\ last.op = "exit"
    /\ scopes # <<>>
    /\ last.s # Head(scopes)
    /\ In(Head(scopes), sys_path)
    /\ sys_path[1] # Head(scopes)

====
